---- MODULE Spec2Model ----
(***************************************************************************)
(* Digital-Setu map widget (public/Digital-Setu/script.js).                *)
(*                                                                         *)
(* Boundary resolver: loadGeographicBoundaries and the functions it calls. *)
(* Every `await fetch(...)` and every `await response.json()` is a point   *)
(* where the async function yields; one action models the code that runs   *)
(* from one such point to the next.                                        *)
(***************************************************************************)
EXTENDS Integers, Sequences, FiniteSets, Bags, TLC

VARIABLES
    pc,               \* position of the boundary-loading async call chain
    cur,              \* country source whose fetch/processing is in progress (0: none)
    sub,              \* index in the district / municipality `sources` loop (0: none)
    data,             \* nepalData held by the running loadNepalBoundaryData call
    results,          \* what each country source answered (Untried until fetched)
    districtWorld,    \* what each district source answers when fetched
    muniWorld,        \* what each municipality source answers when fetched
    fetchLog,         \* the fetch() calls issued so far, in order
    nepalPolygon,     \* script.js:11
    bagmatiPolygon,   \* script.js:12
    nagarjunPolygon,  \* script.js:13
    mapLayers,        \* layers added to the Leaflet map with addTo(map)
    escaped           \* the rejection handler of the load listener ran (script.js:1370)

\* The journeys: the auto-progression of guided modes and the progressive
\* discovery story mode.
VARIABLES
    currentMode,          \* script.js:2554
    progressionActive,    \* script.js:2555
    currentStoryIndex,    \* script.js:2556
    progressionTimer,     \* script.js:2557, a timer handle, 0 for null
    progressionCountdown, \* script.js:2558
    isPaused,             \* script.js:2559
    storyModeState,       \* script.js:3864-3874
    boxClass,             \* classList of the three character boxes
    handlerSets,          \* how often setupStoryModeEventHandlers registered its listeners
    introVideo,           \* the cinematic video element, its overlay and its handlers
    modal,                \* the popup modal: shown or not, and whose content it shows
    navbarHidden,         \* the navbar carries the class 'hidden'
    progressionPanel,     \* the auto-progression panel is displayed
    bridgeOverlay,        \* the thematic-bridge overlay is displayed
    continueButton,       \* the Continue Journey button exists
    intervals,            \* the live setInterval timers
    nextHandle,           \* the handle the next setInterval returns
    timeouts,             \* the bag of pending setTimeout callbacks
    countedClosed,        \* per character, a viewing second was counted with its panel not open
    panelFresh            \* the guided panel opened in the last step: no second has passed since

\* The page around the journeys: the content panel that the markers' popups
\* bind, and the intro sequence that leads to the map.
VARIABLES
    panel,                \* the fields of #popup-modal, and the popup that wrote them last
    missing,              \* the elements of the panel that the document lacks
    intro                 \* the splash / statistics / cinematic video sequence of the load listener

bvars == <<pc, cur, sub, data, results, districtWorld, muniWorld, fetchLog,
           nepalPolygon, bagmatiPolygon, nagarjunPolygon, mapLayers, escaped>>

progression == <<currentMode, progressionActive, currentStoryIndex,
                 progressionTimer, progressionCountdown, isPaused>>

jvars == <<progression, storyModeState, boxClass, handlerSets, introVideo, modal,
           navbarHidden, progressionPanel, bridgeOverlay, continueButton,
           intervals, nextHandle, timeouts, countedClosed, panelFresh>>

pagevars == <<panel, missing, intro>>

vars == <<bvars, jvars, pagevars>>

\* script.js:3867 and 3981-4008: the three characters, in journey order
Characters == <<"maili", "sunita", "aman">>
CharacterSet == {"maili", "sunita", "aman"}
NoCharacter == "null"

\* no panel content
NoContent == [kind |-> "none", of |-> "none", index |-> 0]

\* script.js:2554-2559, 3864-3874 and 4261-4266: the journeys before any start
JourneyInit ==
    /\ currentMode = "manual"
    /\ progressionActive = FALSE
    /\ currentStoryIndex = 0
    /\ progressionTimer = 0
    /\ progressionCountdown = 15
    /\ isPaused = FALSE
    /\ storyModeState = [isActive |-> FALSE, currentCharacter |-> NoCharacter,
                         completedCharacters |-> <<>>, viewingTimer |-> 0,
                         currentUnlocked |-> NoCharacter]
    /\ boxClass = [c \in CharacterSet |-> {"locked"}]
    /\ handlerSets = 0
    /\ introVideo = [overlay |-> FALSE, playing |-> FALSE, armed |-> FALSE, starting |-> FALSE]
    /\ modal = [show |-> FALSE, content |-> NoContent]
    /\ navbarHidden = FALSE
    /\ progressionPanel = FALSE
    /\ bridgeOverlay = FALSE
    /\ continueButton = FALSE
    /\ intervals = {}
    /\ nextHandle = 1
    /\ timeouts = EmptyBag
    /\ countedClosed = [c \in CharacterSet |-> FALSE]
    /\ panelFresh = FALSE

\* the elements of the content panel that the popups bind; elements that are
\* always written together stand as one (label: location-name and
\* interview-count; profile: resident-headshot, -name, -role, -description;
\* photos, quotes, themes, icons: the three of each; stats: the five fields)
ContentFields == {"title", "label", "badge", "profile", "photos", "quotes", "themes",
                  "icons", "showcaseHeading", "showcaseContainer", "video1Heading",
                  "video1Src", "video2Heading", "video2Src", "stats", "photoGrid"}

\* the elements whose style.display the popups set
DisplayFields == {"modal", "residentContent", "foundationContent", "statsDisplay",
                  "photoDisplay", "showcaseDisplay", "video1Display", "video2Display",
                  "video3Display", "accessIndicator", "customContent", "photoSection",
                  "youtubeDisplay", "audioSection"}

PanelFields == ContentFields \cup DisplayFields

\* the content an element has in the document as loaded
Default == "default"

\* script.js:1395 and the document: the panel before any popup was opened
PanelInit ==
    panel = [fields |-> [f \in PanelFields |-> Default], poi |-> "none",
             threw |-> FALSE, pending |-> "none"]

\* script.js:1356-1384: the load listener has run, the splash screen is shown
IntroInit ==
    intro = [phase |-> "splash", userInteracted |-> FALSE, overlay |-> FALSE,
             armed |-> FALSE, video |-> "idle", muted |-> FALSE, button |-> "none",
             pendingSkips |-> 0,
             pendingHighlights |-> 0, created |-> 0, navbar |-> FALSE]

\* the page as loaded, with the complete document
PageInit ==
    /\ PanelInit
    /\ missing = {}
    /\ IntroInit

ctl == <<pc, cur, sub, data>>
layers == <<nepalPolygon, bagmatiPolygon, nagarjunPolygon, mapLayers>>

-----------------------------------------------------------------------------
(* JavaScript values of feature properties.  A string is its sequence of   *)
(* characters, so that toLowerCase() and includes() are computed.          *)

Str(s) == [t |-> "string", v |-> s]
Num(s) == [t |-> "number", v |-> s]
Undefined == [t |-> "undefined", v |-> <<>>]

UpperCase == <<"A","B","C","D","E","F","G","H","I","J","K","L","M",
               "N","O","P","Q","R","S","T","U","V","W","X","Y","Z">>
LowerCase == <<"a","b","c","d","e","f","g","h","i","j","k","l","m",
               "n","o","p","q","r","s","t","u","v","w","x","y","z">>

LowerChar(c) ==
    IF \E i \in 1..Len(UpperCase) : UpperCase[i] = c
    THEN LowerCase[CHOOSE i \in 1..Len(UpperCase) : UpperCase[i] = c]
    ELSE c

\* String.prototype.toLowerCase
toLowerCase(s) == [i \in 1..Len(s) |-> LowerChar(s[i])]

\* String.prototype.includes
includes(s, t) ==
    \E i \in 1..(Len(s) - Len(t) + 1) : SubSeq(s, i, i + Len(t) - 1) = t

\* JavaScript truthiness of a property value
Truthy(x) ==
    \/ x.t = "string" /\ x.v # <<>>
    \/ x.t = "number" /\ x.v # <<"0">>

\* a || b || c || ''
OrElse3(a, b, c) ==
    IF Truthy(a) THEN a ELSE IF Truthy(b) THEN b ELSE IF Truthy(c) THEN c ELSE Str(<<>>)

\* a || b || ''
OrElse2(a, b) ==
    IF Truthy(a) THEN a ELSE IF Truthy(b) THEN b ELSE Str(<<>>)

bagmati == <<"b","a","g","m","a","t","i">>
kathmandu == <<"k","a","t","h","m","a","n","d","u">>
nagarjun == <<"n","a","g","a","r","j","u","n">>

-----------------------------------------------------------------------------
(* GeoJSON documents.                                                      *)

NoProps == [isNull |-> TRUE, ADM1_EN |-> Undefined, PROVINCE |-> Undefined,
            NAME |-> Undefined, DISTRICT |-> Undefined]
Props(adm, prov, name, dist) ==
    [isNull |-> FALSE, ADM1_EN |-> adm, PROVINCE |-> prov, NAME |-> name, DISTRICT |-> dist]

Feature(p) == [properties |-> p]

Collection(fs) == [t |-> "FeatureCollection", features |-> fs]
NullDoc == [t |-> "null", features |-> <<>>]        \* the JSON text `null`
Malformed == [t |-> "malformed", features |-> <<>>] \* response.json() rejects
NoBody == [t |-> "none", features |-> <<>>]


\* the property strings that occur in the fetched documents
sBagmati == <<"B","a","g","m","a","t","i">>
sBAGMATI == <<"B","A","G","M","A","T","I">>
sGandaki == <<"G","a","n","d","a","k","i">>
s3 == <<"3">>
sProvince3 == <<"P","r","o","v","i","n","c","e"," ","3">>
sKATHMANDU == <<"K","A","T","H","M","A","N","D","U">>
sLalitpur == <<"L","a","l","i","t","p","u","r">>
sNagarjun == <<"N","a","g","a","r","j","u","n">>
sKirtipur == <<"K","i","r","t","i","p","u","r">>

U == Undefined

\* documents a country source can serve
DocBagmati ==      \* the second feature is {ADM1_EN: "Bagmati"}
    Collection(<< Feature(Props(Str(sGandaki), U, U, U)),
                  Feature(Props(Str(sBagmati), U, U, U)) >>)
DocBAGMATI ==      \* {PROVINCE: "BAGMATI"}
    Collection(<< Feature(Props(U, Str(sBAGMATI), U, U)) >>)
DocNoProvince ==   \* no feature of the province
    Collection(<< Feature(Props(U, U, Str(sGandaki), U)) >>)
DocProvince3 ==    \* {PROVINCE: "Province 3"} before {NAME: "Bagmati"}
    Collection(<< Feature(Props(U, Str(sProvince3), U, U)),
                  Feature(Props(U, U, Str(sBagmati), U)) >>)
DocNumeric ==      \* {PROVINCE: 3}, a number, before {ADM1_EN: "Bagmati"}
    Collection(<< Feature(Props(U, Num(s3), U, U)),
                  Feature(Props(Str(sBagmati), U, U, U)) >>)
CountryDocs ==
    {DocBagmati, DocBAGMATI, DocNoProvince, DocProvince3, DocNumeric, NullDoc}

\* documents a district source can serve
DocKathmandu ==    \* the second feature is {DISTRICT: "KATHMANDU"}
    Collection(<< Feature(Props(U, U, U, Str(sLalitpur))),
                  Feature(Props(U, U, U, Str(sKATHMANDU))) >>)
DocLalitpur ==     \* no feature of the district
    Collection(<< Feature(Props(U, U, Str(sLalitpur), U)) >>)
DocNoProperties == \* a feature with properties: null
    Collection(<< Feature(NoProps) >>)
DistrictDocs == {DocKathmandu, DocLalitpur, DocNoProperties}

\* documents a municipality source can serve
DocNagarjun ==     \* the second feature is {NAME: "Nagarjun"}
    Collection(<< Feature(Props(U, U, Str(sKirtipur), U)),
                  Feature(Props(U, U, Str(sNagarjun), U)) >>)
DocKirtipur ==     \* no feature of the municipality
    Collection(<< Feature(Props(U, U, Str(sKirtipur), U)) >>)
DocNullThenNagarjun == \* properties: null before {NAME: "Nagarjun"}
    Collection(<< Feature(NoProps),
                  Feature(Props(U, U, Str(sNagarjun), U)) >>)
MunicipalityDocs == {DocNagarjun, DocKirtipur, DocNullThenNagarjun}

-----------------------------------------------------------------------------
(* What a fetch can settle to.                                             *)

NetError == [net |-> "error", status |-> 0, body |-> NoBody]   \* fetch() rejects
Http(s) == [net |-> "ok", status |-> s, body |-> NoBody]       \* body never read
Ok(b) == [net |-> "ok", status |-> 200, body |-> b]
Untried == [net |-> "untried", status |-> 0, body |-> NoBody]

FailStatuses == {503}

\* Response.ok
ResponseOk(o) == o.status \in 200..299

OutcomesOver(docs) ==
    {NetError} \cup {Http(s) : s \in FailStatuses} \cup {Ok(b) : b \in docs \cup {Malformed}}

CountrySources == 1..4        \* script.js:31, 36, 110, 119
DistrictSources == 1..2       \* script.js:233-236
MunicipalitySources == 1..2   \* script.js:170-173

NoWorld == [j \in 1..2 |-> Untried]

-----------------------------------------------------------------------------
(* Array.prototype.find with the three name predicates of the script.      *)
(* A callback that throws on feature i ends the search with the exception, *)
(* provided no earlier feature matched.                                    *)

Thrown == [t |-> "thrown", v |-> <<>>]

\* script.js:141-142
ProvinceName(f) ==
    LET props == f.properties    \* feature.properties || {}: null reads as {}
    IN OrElse3(props.ADM1_EN, props.PROVINCE, props.NAME)

\* script.js:248
DistrictName(f) ==
    IF f.properties.isNull THEN Thrown
    ELSE OrElse2(f.properties.NAME, f.properties.DISTRICT)

\* script.js:201
MunicipalityName(f) ==
    IF f.properties.isNull THEN Thrown
    ELSE OrElse2(f.properties.NAME, Undefined)

\* name.toLowerCase() exists only on strings
CallbackThrows(name) == name.t # "string"

\* script.js:143
IsBagmati(name) ==
    \/ includes(toLowerCase(name.v), bagmati)
    \/ name.v = s3
    \/ name.v = sProvince3

\* script.js:249
IsKathmandu(name) == includes(toLowerCase(name.v), kathmandu)

\* script.js:202
IsNagarjun(name) == includes(toLowerCase(name.v), nagarjun)

NotFound == [kind |-> "none", idx |-> 0]
FindThrew == [kind |-> "throws", idx |-> 0]
Found(i) == [kind |-> "found", idx |-> i]

Find(doc, NameOf(_), Matches(_)) ==
    IF doc.t # "FeatureCollection" THEN FindThrew   \* null.features
    ELSE
    LET fs == doc.features
        Stops(i) == \/ CallbackThrows(NameOf(fs[i]))
                    \/ Matches(NameOf(fs[i]))
        hits == {i \in 1..Len(fs) : Stops(i)}
    IN IF hits = {} THEN NotFound
       ELSE LET i == CHOOSE h \in hits : \A g \in hits : h <= g
            IN IF CallbackThrows(NameOf(fs[i])) THEN FindThrew ELSE Found(i)

\* the three searches, tabulated over the documents of the model
Bodies == CountryDocs \cup DistrictDocs \cup MunicipalityDocs \cup {NullDoc, Malformed, NoBody}
BagmatiSearch == [d \in Bodies |-> Find(d, ProvinceName, IsBagmati)]
KathmanduSearch == [d \in Bodies |-> Find(d, DistrictName, IsKathmandu)]
NagarjunSearch == [d \in Bodies |-> Find(d, MunicipalityName, IsNagarjun)]

\* script.js:140-144
FindBagmati(doc) == BagmatiSearch[doc]
\* script.js:247-250
FindKathmandu(doc) == KathmanduSearch[doc]
\* as FindNagarjun, settling for the first feature when none matches
FindNagarjun_AnyFeature(doc) ==
    IF NagarjunSearch[doc].kind = "none" /\ Len(doc.features) > 0
    THEN Found(1)
    ELSE NagarjunSearch[doc]

\* script.js:200-203
FindNagarjun(doc) == NagarjunSearch[doc]

-----------------------------------------------------------------------------
(* Leaflet layers.  A layer records the constructor that built it, the     *)
(* source and feature it was built from, and the options passed.           *)

Null == [ctor |-> "null"]
Hardcoded == <<"hardcoded", 0>>

Style(c, o, fo) ==
    [color |-> c, weight |-> 3, opacity |-> o, fillColor |-> c, fillOpacity |-> fo]

\* L.geoJSON(data, {style: {...}})
GeoJSON(src, i, feat, c, o, fo) ==
    [ctor |-> "geoJSON", src |-> src, idx |-> i, feature |-> feat,
     options |-> [style |-> Style(c, o, fo)]]

\* L.polygon(outline, {..., className})
Polygon(c, o, fo, cls) ==
    [ctor |-> "polygon", src |-> Hardcoded, idx |-> 0, feature |-> Feature(NoProps),
     options |-> [color |-> c, weight |-> 3, opacity |-> o, fillColor |-> c,
                  fillOpacity |-> fo, className |-> cls]]

Green == "#34d399"
Blue == "#60a5fa"
Yellow == "#fbbf24"

\* script.js:64-72 (the whole document becomes one layer)
CountryLayer(k) == GeoJSON(<<"country", k>>, 0, Feature(NoProps), Green, "0.8", "0.1")
\* script.js:148-156 and 256-264
ProvinceLayer(src, i, feat) == GeoJSON(src, i, feat, Blue, "0", "0")
\* script.js:207-215
MunicipalityLayer(src, i, feat) == GeoJSON(src, i, feat, Yellow, "0", "0")

\* the colour of a layer tells its kind
ColorOf(l) == IF l.ctor = "geoJSON" THEN l.options.style.color ELSE l.options.color

NoData == NoBody

-----------------------------------------------------------------------------
(* Control flow.                                                           *)

Fetch(src) == fetchLog' = Append(fetchLog, src)

\* script.js:283-366
loadFallbackBoundaries ==
    LET n == Polygon(Green, "0.8", "0.1", "nepal-highlight")
        b == Polygon(Blue, "0", "0", "bagmati-highlight")
        m == Polygon(Yellow, "0", "0", "nagarjun-highlight")
    IN /\ nepalPolygon' = n
       /\ bagmatiPolygon' = b
       /\ nagarjunPolygon' = m
       /\ mapLayers' = mapLayers \cup {n, b, m}

\* the async call chain returns to the load listener
Return ==
    /\ pc' = "done"
    /\ cur' = 0
    /\ sub' = 0
    /\ data' = NoData

\* script.js:105-110: loadGovernmentVerifiedBoundaries runs to its first await
loadGovernmentVerifiedBoundaries ==
    /\ pc' = "fetchCountry"
    /\ cur' = 3
    /\ sub' = 0
    /\ data' = NoData
    /\ Fetch(<<"country", 3>>)

\* the function whose try block encloses the handling of country source k
TryBlockOf(k) ==
    IF k \in {1, 2} THEN "loadGeographicBoundaries"
    ELSE IF k \in {3, 4} THEN "loadGovernmentVerifiedBoundaries"
    ELSE "none"

\* as Raise, with the catch block of loadGovernmentVerifiedBoundaries only logging
Raise_CatchOnlyLogs ==
    CASE TryBlockOf(cur) = "loadGeographicBoundaries" ->
            /\ loadGovernmentVerifiedBoundaries
            /\ UNCHANGED <<layers, escaped>>
      [] OTHER ->
            /\ Return
            /\ UNCHANGED <<fetchLog, layers, escaped>>

\* An exception is thrown while country source `cur` is fetched or processed.
\* script.js:48-52 and 128-132
Raise ==
    CASE TryBlockOf(cur) = "loadGeographicBoundaries" ->
            /\ loadGovernmentVerifiedBoundaries
            /\ UNCHANGED <<layers, escaped>>
      [] TryBlockOf(cur) = "loadGovernmentVerifiedBoundaries" ->
            /\ loadFallbackBoundaries
            /\ Return
            /\ UNCHANGED <<fetchLog, escaped>>
      [] OTHER ->
            /\ escaped' = TRUE
            /\ Return
            /\ UNCHANGED <<fetchLog, layers>>

Init ==
    /\ pc = "init"
    /\ cur = 0
    /\ sub = 0
    /\ data = NoData
    /\ results = [k \in CountrySources |-> Untried]
    /\ districtWorld = NoWorld
    /\ muniWorld = NoWorld
    /\ fetchLog = <<>>
    /\ nepalPolygon = Null
    /\ bagmatiPolygon = Null
    /\ nagarjunPolygon = Null
    /\ mapLayers = {}
    /\ escaped = FALSE
    /\ JourneyInit
    /\ PageInit

\* script.js:1358-1372 and 25-31: the load listener starts the resolution
WindowLoad ==
    /\ pc = "init"
    /\ pc' = "fetchCountry"
    /\ cur' = 1
    /\ Fetch(<<"country", 1>>)
    /\ UNCHANGED <<sub, data, results, districtWorld, muniWorld, layers, escaped>>
    /\ UNCHANGED <<jvars, pagevars>>

\* script.js:31-43 and 110-126: a country fetch settles
FetchCountrySettle ==
    /\ pc = "fetchCountry"
    /\ \E o \in OutcomesOver(CountryDocs) :
         /\ results' = [results EXCEPT ![cur] = o]
         /\ IF o.net = "error" THEN Raise
            ELSE IF ~ResponseOk(o) THEN
                CASE cur = 1 ->   \* script.js:36
                        /\ pc' = "fetchCountry"
                        /\ cur' = 2
                        /\ Fetch(<<"country", 2>>)
                        /\ UNCHANGED <<sub, data, layers, escaped>>
                  [] cur = 3 ->   \* script.js:119
                        /\ pc' = "fetchCountry"
                        /\ cur' = 4
                        /\ Fetch(<<"country", 4>>)
                        /\ UNCHANGED <<sub, data, layers, escaped>>
                  [] OTHER -> Raise   \* script.js:42 and 126
            ELSE /\ pc' = "jsonCountry"
                 /\ UNCHANGED <<cur, sub, data, fetchLog, layers, escaped>>
    /\ UNCHANGED <<districtWorld, muniWorld>>
    /\ UNCHANGED <<jvars, pagevars>>

\* script.js:38, 45, 112, 121: response.json() settles
JsonCountrySettle ==
    /\ pc = "jsonCountry"
    /\ IF results[cur].body = Malformed THEN Raise
       ELSE /\ pc' = "loadNepalBoundaryData"
            /\ data' = results[cur].body
            /\ UNCHANGED <<cur, sub, fetchLog, layers, escaped>>
    /\ UNCHANGED <<results, districtWorld, muniWorld>>
    /\ UNCHANGED <<jvars, pagevars>>

\* as loadNepalBoundaryData, going on to the province before the country
\* layer is added to the map
loadNepalBoundaryData_ResolvesBeforeLayer ==
    /\ pc = "loadNepalBoundaryData"
    /\ IF data.t # "FeatureCollection" THEN Raise
       ELSE /\ pc' = "loadProvinceFromData"
            /\ UNCHANGED <<cur, sub, data, fetchLog, layers, escaped>>
    /\ UNCHANGED <<results, districtWorld, muniWorld>>
    /\ UNCHANGED <<jvars, pagevars>>

\* script.js:56-73 (verifyDisputedTerritories only feeds a log line)
loadNepalBoundaryData ==
    /\ pc = "loadNepalBoundaryData"
    /\ IF data.t # "FeatureCollection" THEN Raise   \* nepalData.features of null
       ELSE /\ nepalPolygon' = CountryLayer(cur)
            /\ mapLayers' = mapLayers \cup {CountryLayer(cur)}
            /\ pc' = "loadProvinceFromData"
            /\ UNCHANGED <<cur, sub, data, fetchLog, bagmatiPolygon, nagarjunPolygon, escaped>>
    /\ UNCHANGED <<results, districtWorld, muniWorld>>
    /\ UNCHANGED <<jvars, pagevars>>

\* script.js:165-177: loadOfficialMunicipalityBoundaries is entered next
ToMunicipality ==
    /\ pc' = "loadOfficialMunicipalityBoundaries"
    /\ sub' = 0

\* script.js:136-162 and 228-240
loadProvinceFromData ==
    /\ pc = "loadProvinceFromData"
    /\ LET r == FindBagmati(data)
       IN CASE r.kind = "throws" ->
                 /\ Raise
                 /\ UNCHANGED districtWorld
            [] r.kind = "found" ->
                 LET l == ProvinceLayer(<<"country", cur>>, r.idx, data.features[r.idx])
                 IN /\ bagmatiPolygon' = l
                    /\ mapLayers' = mapLayers \cup {l}
                    /\ ToMunicipality
                    /\ UNCHANGED <<cur, data, fetchLog, nepalPolygon, nagarjunPolygon,
                                   escaped, districtWorld>>
            [] OTHER ->   \* loadDistrictBoundaries runs to its first fetch
                 /\ districtWorld' \in [DistrictSources -> OutcomesOver(DistrictDocs)]
                 /\ pc' = "fetchDistrict"
                 /\ sub' = 1
                 /\ Fetch(<<"district", 1>>)
                 /\ UNCHANGED <<cur, data, layers, escaped>>
    /\ UNCHANGED <<results, muniWorld>>
    /\ UNCHANGED <<jvars, pagevars>>

\* script.js:238-241, 270-275: the loop goes on to the next district source
NextDistrict ==
    IF sub + 1 \in DistrictSources
    THEN /\ pc' = "fetchDistrict"
         /\ sub' = sub + 1
         /\ Fetch(<<"district", sub + 1>>)
    ELSE /\ ToMunicipality
         /\ UNCHANGED fetchLog

\* script.js:240-241: a district fetch settles
FetchDistrictSettle ==
    /\ pc = "fetchDistrict"
    /\ LET o == districtWorld[sub]
       IN IF o.net = "error" \/ ~ResponseOk(o) THEN NextDistrict
          ELSE /\ pc' = "jsonDistrict"
               /\ UNCHANGED <<sub, fetchLog>>
    /\ UNCHANGED <<cur, data, results, districtWorld, muniWorld, layers, escaped>>
    /\ UNCHANGED <<jvars, pagevars>>

\* script.js:243-272: the district document is parsed and searched
JsonDistrictSettle ==
    /\ pc = "jsonDistrict"
    /\ LET body == districtWorld[sub].body
           r == FindKathmandu(body)
       IN IF body = Malformed \/ r.kind = "throws"
          THEN /\ NextDistrict
               /\ UNCHANGED layers
          ELSE /\ IF r.kind = "found" /\ bagmatiPolygon = Null
                  THEN LET l == ProvinceLayer(<<"district", sub>>, r.idx, body.features[r.idx])
                       IN /\ bagmatiPolygon' = l
                          /\ mapLayers' = mapLayers \cup {l}
                          /\ UNCHANGED <<nepalPolygon, nagarjunPolygon>>
                  ELSE UNCHANGED layers
               /\ ToMunicipality   \* script.js:268
               /\ UNCHANGED fetchLog
    /\ UNCHANGED <<cur, data, results, districtWorld, muniWorld, escaped>>
    /\ UNCHANGED <<jvars, pagevars>>

\* script.js:165-177
loadOfficialMunicipalityBoundaries ==
    /\ pc = "loadOfficialMunicipalityBoundaries"
    /\ muniWorld' \in [MunicipalitySources -> OutcomesOver(MunicipalityDocs)]
    /\ pc' = "fetchMunicipality"
    /\ sub' = 1
    /\ Fetch(<<"municipality", 1>>)
    /\ UNCHANGED <<cur, data, results, districtWorld, layers, escaped>>
    /\ UNCHANGED <<jvars, pagevars>>

\* script.js:175-188: the loop goes on to the next municipality source
NextMunicipality ==
    IF sub + 1 \in MunicipalitySources
    THEN /\ pc' = "fetchMunicipality"
         /\ sub' = sub + 1
         /\ Fetch(<<"municipality", sub + 1>>)
         /\ UNCHANGED <<cur, data>>
    ELSE /\ Return
         /\ UNCHANGED fetchLog

\* script.js:177-178: a municipality fetch settles
FetchMunicipalitySettle ==
    /\ pc = "fetchMunicipality"
    /\ LET o == muniWorld[sub]
       IN IF o.net = "error" \/ ~ResponseOk(o) THEN NextMunicipality
          ELSE /\ pc' = "jsonMunicipality"
               /\ UNCHANGED <<cur, sub, data, fetchLog>>
    /\ UNCHANGED <<results, districtWorld, muniWorld, layers, escaped>>
    /\ UNCHANGED <<jvars, pagevars>>

\* as findNagarjunInData, drawing the hard-coded outline when nothing is found
findNagarjunInData_Synthesizes(body, src) ==
    LET r == FindNagarjun(body)
        l == IF r.kind = "found"
             THEN MunicipalityLayer(src, r.idx, body.features[r.idx])
             ELSE Polygon(Yellow, "0", "0", "nagarjun-highlight")
    IN /\ nagarjunPolygon' = l
       /\ mapLayers' = mapLayers \cup {l}
       /\ UNCHANGED <<nepalPolygon, bagmatiPolygon>>

\* script.js:195-225
findNagarjunInData(body, src) ==
    LET r == FindNagarjun(body)
    IN IF r.kind = "found"
       THEN LET l == MunicipalityLayer(src, r.idx, body.features[r.idx])
            IN /\ nagarjunPolygon' = l
               /\ mapLayers' = mapLayers \cup {l}
               /\ UNCHANGED <<nepalPolygon, bagmatiPolygon>>
       ELSE UNCHANGED layers

\* script.js:179-185: the municipality document is parsed and searched
JsonMunicipalitySettle ==
    /\ pc = "jsonMunicipality"
    /\ LET body == muniWorld[sub].body
       IN IF body = Malformed \/ FindNagarjun(body).kind = "throws"
          THEN /\ NextMunicipality
               /\ UNCHANGED layers
          ELSE /\ findNagarjunInData(body, <<"municipality", sub>>)
               /\ Return   \* script.js:181
               /\ UNCHANGED fetchLog
    /\ UNCHANGED <<results, districtWorld, muniWorld, escaped>>
    /\ UNCHANGED <<jvars, pagevars>>

Next ==
    \/ WindowLoad
    \/ FetchCountrySettle
    \/ JsonCountrySettle
    \/ loadNepalBoundaryData
    \/ loadProvinceFromData
    \/ FetchDistrictSettle
    \/ JsonDistrictSettle
    \/ loadOfficialMunicipalityBoundaries
    \/ FetchMunicipalitySettle
    \/ JsonMunicipalitySettle

Spec == Init /\ [][Next]_vars

\* every fetch settles and the event loop runs every continuation
FairSpec == Spec /\ WF_vars(Next)

-----------------------------------------------------------------------------
(* Properties of the boundary resolver.                                    *)

Done == pc = "done"

Fetched(chain, j) == \E i \in 1..Len(fetchLog) : fetchLog[i] = <<chain, j>>

\* C1: whatever each source answers, with every fetch settling, the
\* resolution started by loadGeographicBoundaries completes, no exception
\* escapes it, and it ends with nepalPolygon set.
C1_ResolutionCompletesWithCountryLayer ==
    /\ <>Done
    /\ [](Done => nepalPolygon # Null /\ ~escaped)

\* C1 witness: the resolution completed after the four country sources
\* failed in four different ways, one of them while its data was processed.
C1_Witness ==
    /\ Done
    /\ results[1] = Http(503)
    /\ results[2] = NetError
    /\ results[3] = Ok(DocNumeric)
    /\ nepalPolygon # Null

-----------------------------------------------------------------------------
(* What the claims call a source that responds, fails or matches.          *)

\* the document has a feature whose name (a string) contains `target`,
\* whatever the case of its letters
Matching(doc, NameOf(_), target) ==
    {i \in 1..Len(doc.features) :
        LET name == NameOf(doc.features[i])
        IN name.t = "string" /\ includes(toLowerCase(name.v), target)}

HasBagmati == [d \in Bodies |-> Matching(d, ProvinceName, bagmati) # {}]
HasKathmandu == [d \in Bodies |-> Matching(d, DistrictName, kathmandu) # {}]
HasNagarjun == [d \in Bodies |-> Matching(d, MunicipalityName, nagarjun) # {}]

\* a 2xx answer whose body is a GeoJSON document
RespondsSuccessfully(o) == ResponseOk(o) /\ o.body.t = "FeatureCollection"

\* non-2xx status, network error or malformed JSON
TransientFailure(o) ==
    \/ o.net = "error"
    \/ o.net = "ok" /\ ~ResponseOk(o)
    \/ o.body = Malformed

\* the fetch of country source k has settled and its answer has been handled
Handled(k) ==
    /\ results[k] # Untried
    /\ ~(cur = k /\ pc \in {"fetchCountry", "jsonCountry"})

\* country source k was fetched and gave no boundary: a transient failure,
\* or a failure while its data was processed
CountrySourceFailed(k) ==
    /\ Handled(k)
    /\ \/ TransientFailure(results[k])
       \/ results[k].body = NullDoc
       \/ FindBagmati(results[k].body).kind = "throws"

DistrictChainRan == districtWorld # NoWorld
MunicipalityChainRan == muniWorld # NoWorld

First(S) == CHOOSE k \in S : \A j \in S : k <= j

\* the source a layer variable's layer was built from (none while unset)
SrcOf(l) == IF l = Null THEN <<"none", 0>> ELSE l.src
IdxOf(l) == IF l = Null THEN 0 ELSE l.idx

\* the sources of each chain that respond successfully and, for the named
\* chains, contain a matching feature
CountryWinners ==
    {k \in CountrySources :
        Handled(k) /\ RespondsSuccessfully(results[k]) /\ ~CountrySourceFailed(k)}
DistrictWinners ==
    {j \in DistrictSources :
        RespondsSuccessfully(districtWorld[j]) /\ HasKathmandu[districtWorld[j].body]}
MunicipalityWinners ==
    {j \in MunicipalitySources :
        RespondsSuccessfully(muniWorld[j]) /\ HasNagarjun[muniWorld[j].body]}

\* C2: in every fallback chain, if source k is the first that responds
\* successfully and (district, municipality) contains a matching feature,
\* the layer installed is built from source k and no source after k of that
\* chain is fetched.
C2_FirstRespondingMatchingSourceWins ==
    Done =>
      /\ CountryWinners # {} =>
            /\ SrcOf(nepalPolygon) = <<"country", First(CountryWinners)>>
            /\ \A j \in CountrySources :
                   j > First(CountryWinners) => ~Fetched("country", j)
      /\ DistrictChainRan /\ DistrictWinners # {} =>
            /\ SrcOf(bagmatiPolygon) = <<"district", First(DistrictWinners)>>
            /\ \A j \in DistrictSources :
                   j > First(DistrictWinners) => ~Fetched("district", j)
      /\ MunicipalityChainRan /\ MunicipalityWinners # {} =>
            /\ SrcOf(nagarjunPolygon) = <<"municipality", First(MunicipalityWinners)>>
            /\ \A j \in MunicipalitySources :
                   j > First(MunicipalityWinners) => ~Fetched("municipality", j)

\* C3: the municipality layer is set from the first of the two sources that
\* responds successfully and contains a feature whose NAME contains
\* 'nagarjun'; in particular from source 2 when source 1 responds without
\* such a feature and source 2 with one.
C3_MunicipalityFromFirstMatchingSource ==
    Done /\ MunicipalityChainRan /\ MunicipalityWinners # {} =>
        LET j == First(MunicipalityWinners)
        IN /\ SrcOf(nagarjunPolygon) = <<"municipality", j>>
           /\ IdxOf(nagarjunPolygon) \in Matching(muniWorld[j].body, MunicipalityName, nagarjun)

\* C4: when the primary country source fails (non-2xx, network error,
\* malformed JSON) the next fetch is the secondary source, before the
\* tertiary one; when the tertiary fails (non-2xx, network error) the
\* community source is fetched.
C4_FailureAdvancesToNextCountrySource ==
    /\ Handled(1) /\ TransientFailure(results[1]) =>
          /\ Len(fetchLog) >= 2
          /\ fetchLog[2] = <<"country", 2>>
    /\ Handled(3) /\ (results[3].net = "error" \/ ~ResponseOk(results[3])) =>
          Fetched("country", 4)

\* a layer carries a mark that tells it is an approximation
MarkedApproximate(l) == "approximate" \in DOMAIN l.options

\* C5: if all sources of the country chain fail, the resolver ends with the
\* hard-coded polygon as the country layer, marked as approximate.
C5_ExhaustionGivesMarkedSyntheticPolygon ==
    Done /\ (\A k \in CountrySources : results[k] = Untried \/ CountrySourceFailed(k)) =>
        /\ nepalPolygon.ctor = "polygon"
        /\ SrcOf(nepalPolygon) = Hardcoded
        /\ MarkedApproximate(nepalPolygon)

SyntheticInstalled == \E l \in mapLayers : l.ctor = "polygon"

\* C6: the synthetic polygon is installed only on exhaustion: whenever
\* loadFallbackBoundaries has run, each of the four country sources was
\* attempted and failed.
C6_SyntheticOnlyOnExhaustion ==
    SyntheticInstalled =>
        \A k \in CountrySources : Fetched("country", k) /\ CountrySourceFailed(k)

\* C7: at every moment at most one boundary layer of each kind (country
\* green, province blue, municipality yellow) is on the map.
C7_OneLayerPerKind ==
    \A c \in {Green, Blue, Yellow} :
        Cardinality({l \in mapLayers : ColorOf(l) = c}) <= 1

\* the last fetch() issued
LastFetch(log) == log[Len(log)]

\* C8: a district source is fetched only after the country data was found
\* to contain no feature whose name matches 'bagmati'; and when the country
\* data has such a feature, loadProvinceFromData builds the province layer
\* from it and issues no network request.
C8_ProvinceSearchedInCountryDataFirst ==
    [][ /\ (fetchLog' # fetchLog /\ LastFetch(fetchLog')[1] = "district")
              => ~HasBagmati[data]
        /\ (pc = "loadProvinceFromData" /\ HasBagmati[data])
              => /\ SrcOf(bagmatiPolygon') = <<"country", cur>>
                 /\ IdxOf(bagmatiPolygon') \in Matching(data, ProvinceName, bagmati)
                 /\ fetchLog' = fetchLog ]_vars

\* the tag a layer carries: authoritative boundary or proxy region
TagOf(l) ==
    IF l # Null /\ "tag" \in DOMAIN l.options THEN l.options.tag ELSE "untagged"

\* province resolution has returned (or the whole resolution has)
ProvinceResolved ==
    \/ Done
    \/ pc \in {"loadOfficialMunicipalityBoundaries", "fetchMunicipality", "jsonMunicipality"}

\* C9: primary fails with HTTP 503 and the secondary succeeds with a Bagmati
\* feature: the province layer is that feature of the secondary's data,
\* tagged authoritative; a province layer taken from the Kathmandu district
\* is tagged proxy.
C9_ProvinceFromSecondaryTaggedAuthoritative ==
    ProvinceResolved =>
      /\ ( /\ results[1] = Http(503)
           /\ RespondsSuccessfully(results[2])
           /\ HasBagmati[results[2].body] )
         => /\ SrcOf(bagmatiPolygon) = <<"country", 2>>
            /\ IdxOf(bagmatiPolygon) \in Matching(results[2].body, ProvinceName, bagmati)
            /\ TagOf(bagmatiPolygon) = "authoritative"
      /\ SrcOf(bagmatiPolygon)[1] = "district" => TagOf(bagmatiPolygon) = "proxy"

\* C10: if every municipality source fails (non-2xx, network error,
\* malformed JSON) or none contains a feature matching 'nagarjun',
\* loadOfficialMunicipalityBoundaries completes, no exception propagates
\* and the municipality layer stays unset.
C10_MunicipalityUnsetWhenNoSourceMatches ==
    /\ [](Done /\ MunicipalityChainRan /\ MunicipalityWinners = {}
            => nagarjunPolygon = Null /\ ~escaped)
    /\ (MunicipalityChainRan ~> Done)

\* C10 witness: source 1 had a network error, source 2 answered without a
\* Nagarjun feature, and the chain completed with the layer unset.
C10_Witness ==
    /\ Done
    /\ muniWorld[1] = NetError
    /\ muniWorld[2] = Ok(DocKirtipur)
    /\ Fetched("municipality", 2)
    /\ nagarjunPolygon = Null

-----------------------------------------------------------------------------
(* The journeys.  A handler is a function from the page's state before it  *)
(* runs to the state after it, so that the calls one handler makes compose. *)

\* bounds of the model
MaxHandles == 3
MaxTimeouts == 1
MaxHandlerSets == 2
MaxOverrun == 1
MaxViewing == 1
MaxViewingStarts == 2

\* script.js:2562-2636: journeyModes
JourneyModes == {"age-journey", "efficacy-spectrum"}
JourneyLength == 4

\* script.js:3869-3873
requiredViewTimes == [c \in CharacterSet |->
    CASE c = "maili" -> 70 [] c = "sunita" -> 60 [] OTHER -> 35]

\* the state of the page the journeys read and write; a step other than the
\* opening of the guided panel leaves that panel no longer fresh
St == [currentMode |-> currentMode, progressionActive |-> progressionActive,
       currentStoryIndex |-> currentStoryIndex, progressionTimer |-> progressionTimer,
       progressionCountdown |-> progressionCountdown, isPaused |-> isPaused,
       storyModeState |-> storyModeState, boxClass |-> boxClass,
       handlerSets |-> handlerSets, introVideo |-> introVideo, modal |-> modal,
       navbarHidden |-> navbarHidden, progressionPanel |-> progressionPanel,
       bridgeOverlay |-> bridgeOverlay, continueButton |-> continueButton,
       intervals |-> intervals, nextHandle |-> nextHandle, timeouts |-> timeouts,
       countedClosed |-> countedClosed, panelFresh |-> FALSE]

WithinBounds(S) ==
    /\ S.nextHandle <= MaxHandles + 1
    /\ BagCardinality(S.timeouts) <= MaxTimeouts
    /\ S.handlerSets <= MaxHandlerSets
    /\ S.progressionCountdown >= 0 - MaxOverrun
    /\ \A t \in S.intervals : t.left >= 0 - MaxOverrun
    /\ Cardinality({t \in S.intervals : t.kind = "viewing"}) <= MaxViewing
    /\ \A t \in S.intervals : t.kind = "viewing" => t.id <= MaxViewingStarts

\* a handler ran and left the page in state S
Becomes(S0) ==
    \E S \in {S0} :
    /\ WithinBounds(S)
    /\ currentMode' = S.currentMode
    /\ progressionActive' = S.progressionActive
    /\ currentStoryIndex' = S.currentStoryIndex
    /\ progressionTimer' = S.progressionTimer
    /\ progressionCountdown' = S.progressionCountdown
    /\ isPaused' = S.isPaused
    /\ storyModeState' = S.storyModeState
    /\ boxClass' = S.boxClass
    /\ handlerSets' = S.handlerSets
    /\ introVideo' = S.introVideo
    /\ modal' = S.modal
    /\ navbarHidden' = S.navbarHidden
    /\ progressionPanel' = S.progressionPanel
    /\ bridgeOverlay' = S.bridgeOverlay
    /\ continueButton' = S.continueButton
    /\ intervals' = S.intervals
    /\ nextHandle' = S.nextHandle
    /\ timeouts' = S.timeouts
    /\ countedClosed' = S.countedClosed
    /\ panelFresh' = S.panelFresh
    /\ UNCHANGED <<bvars, pagevars>>

\* window.setInterval: the timer gets the next handle
setInterval(S, kind, ch, left, index) ==
    [S EXCEPT !.intervals = @ \cup {[id |-> S.nextHandle, kind |-> kind, ch |-> ch,
                                     left |-> left, index |-> index]},
              !.nextHandle = @ + 1]

\* window.clearInterval: no effect when no live timer has the handle
clearInterval(S, handle) ==
    [S EXCEPT !.intervals = {t \in @ : t.id # handle}]

\* window.setTimeout
setTimeout(S, kind, index) ==
    [S EXCEPT !.timeouts = @ (+) SetToBag({[kind |-> kind, index |-> index]})]

\* script.js:2831-2838
hideProgressionPanel(S) ==
    LET T == [S EXCEPT !.progressionPanel = FALSE, !.progressionActive = FALSE]
    IN IF T.progressionTimer # 0
       THEN [clearInterval(T, T.progressionTimer) EXCEPT !.progressionTimer = 0]
       ELSE T

\* script.js:3450-3462
stopProgression(S) ==
    LET T == [S EXCEPT !.progressionActive = FALSE, !.isPaused = FALSE]
        U2 == IF T.progressionTimer # 0
              THEN [clearInterval(T, T.progressionTimer) EXCEPT !.progressionTimer = 0]
              ELSE T
    IN hideProgressionPanel(U2)

\* script.js:3464-3468, with switchMode('manual') (script.js:2640-2648) inlined;
\* in manual mode the alert's template throws and switchMode is not reached,
\* which leaves the same state
completeJourney(S) ==
    [hideProgressionPanel(stopProgression(S)) EXCEPT !.currentMode = "manual"]

\* script.js:2871-2899: the overlay is shown and the bridge interval created
showThematicBridge(S, index) ==
    setInterval([S EXCEPT !.bridgeOverlay = TRUE], "bridge", NoCharacter, 4, index)

\* script.js:2857-2869 and 2901-2947: in manual mode journeyModes[currentMode]
\* is undefined and the handler throws right after the index is assigned
proceedToStory(S, index) ==
    LET T == [S EXCEPT !.currentStoryIndex = index]
    IN IF T.currentMode \in JourneyModes
       THEN setTimeout(T, "flyTo", index)
       ELSE T

\* script.js:2840-2855
goToStory(S, index) ==
    IF S.currentMode \notin JourneyModes \/ index >= JourneyLength
    THEN completeJourney(S)
    ELSE IF index > 0 /\ S.currentStoryIndex # index
         THEN showThematicBridge(S, index)
         ELSE proceedToStory(S, index)

\* script.js:2654-2674 and 2808-2829
startGuidedJourney(S, mode) ==
    goToStory([S EXCEPT !.currentMode = mode, !.currentStoryIndex = 0,
                        !.progressionActive = TRUE, !.isPaused = FALSE,
                        !.progressionPanel = TRUE], 0)

\* script.js:2640-2652
switchMode(S, mode) ==
    LET T == [(IF S.progressionActive THEN stopProgression(S) ELSE S)
                EXCEPT !.currentMode = mode]
    IN IF mode = "manual" THEN hideProgressionPanel(T) ELSE startGuidedJourney(T, mode)

\* script.js:3421-3424
nextStory(S) ==
    goToStory(clearInterval(S, S.progressionTimer), S.currentStoryIndex + 1)

\* script.js:3414-3419
prevStory(S) ==
    IF S.currentStoryIndex > 0
    THEN goToStory(clearInterval(S, S.progressionTimer), S.currentStoryIndex - 1)
    ELSE S

\* script.js:3376-3390
startCountdownTimer(S) ==
    [setInterval([S EXCEPT !.progressionCountdown = 15], "countdown", NoCharacter, 0, 0)
        EXCEPT !.progressionTimer = S.nextHandle]

\* script.js:3426-3440
togglePause(S) ==
    LET T == [S EXCEPT !.isPaused = ~S.isPaused]
    IN IF ~T.isPaused /\ T.progressionCountdown > 0 THEN startCountdownTimer(T) ELSE T

\* script.js:3442-3448: the click() on the manual mode option changes nothing more
exitProgression(S) == switchMode(stopProgression(S), "manual")

\* script.js:2794-2800, 2681-2688 and 2114-2119: the modal loses the class
\* 'show' and slides out; the 300 ms of the slide are not modelled
closeModal(S) == [S EXCEPT !.modal.show = FALSE]

\* script.js:3298-3316: the panel loses the class 'show'; the rest is deferred
continueToNextStory(S) ==
    setTimeout(closeModal(S), "continue", 0)

\* script.js:3047-3076 and 3121-3135: the panel is closed at once and reopened
\* with the participant's content after 100 ms
playParticipantVideo(S, index) ==
    setTimeout([S EXCEPT !.modal = [show |-> FALSE, content |-> NoContent]],
               "openPanel", index)

\* the pending timeout i has fired
Fired(S, i) == [S EXCEPT !.timeouts = @ (-) SetToBag({i})]

\* the mode selector, or any caller of switchMode
SwitchMode ==
    \E mode \in JourneyModes \cup {"manual"} :
        Becomes(switchMode(St, mode))

\* script.js:2789-2806: the panel is closed and the journey starts after 500 ms
startSelfEfficacyJourney ==
    Becomes(setTimeout(closeModal(St), "startEfficacy", 0))

\* script.js:2803-2805
StartEfficacyFires ==
    \E i \in BagToSet(timeouts) :
        /\ i.kind = "startEfficacy"
        /\ Becomes(startGuidedJourney(Fired(St, i), "efficacy-spectrum"))

\* script.js:3408 and 3360-3374: the Previous button, disabled at the first story
PrevStory ==
    /\ progressionPanel
    /\ currentStoryIndex > 0
    /\ Becomes(prevStory(St))

\* script.js:3409 and 3360-3374: the Next button, disabled at the last story
NextStory ==
    /\ progressionPanel
    /\ currentStoryIndex < JourneyLength - 1
    /\ Becomes(nextStory(St))

\* script.js:3410
TogglePause ==
    /\ progressionPanel
    /\ Becomes(togglePause(St))

\* script.js:3411
ExitProgression ==
    /\ progressionPanel
    /\ Becomes(exitProgression(St))

\* script.js:3355: the Continue Journey button, once created, stays in the page
ContinueToNextStory ==
    /\ continueButton
    /\ Becomes(continueToNextStory(St))

\* script.js:3307-3315
ContinueFires ==
    \E i \in BagToSet(timeouts) :
        /\ i.kind = "continue"
        /\ LET T == Fired(St, i)
           IN Becomes(goToStory(T, T.currentStoryIndex + 1))

\* script.js:3380-3389: one second of a countdown interval
CountdownTick ==
    \E t \in intervals :
        /\ t.kind = "countdown"
        /\ IF isPaused
           THEN Becomes(St)
           ELSE LET T == [St EXCEPT !.progressionCountdown = @ - 1]
                IN Becomes(IF T.progressionCountdown <= 0 THEN nextStory(T) ELSE T)

\* script.js:2888-2898: one second of a bridge interval
BridgeTick ==
    \E t \in intervals :
        /\ t.kind = "bridge"
        /\ IF t.left - 1 <= 0
           THEN Becomes(proceedToStory([clearInterval(St, t.id) EXCEPT !.bridgeOverlay = FALSE],
                                       t.index))
           ELSE Becomes([St EXCEPT !.intervals = (@ \ {t}) \cup {[t EXCEPT !.left = @ - 1]}])

\* script.js:2937-2945 and 2865-2868: the fly-to delay is over
FlyToArrives ==
    \E i \in BagToSet(timeouts) :
        /\ i.kind = "flyTo"
        /\ Becomes(playParticipantVideo(Fired(St, i), i.index))

\* script.js:3137-3295: the guided panel opens with the participant's video
GuidedPanelOpens ==
    \E i \in BagToSet(timeouts) :
        /\ i.kind = "openPanel"
        /\ Becomes([Fired(St, i) EXCEPT
                       !.modal = [show |-> TRUE,
                                  content |-> [kind |-> "guided", of |-> "participant",
                                               index |-> i.index]],
                       !.navbarHidden = TRUE,
                       !.continueButton = TRUE,
                       !.panelFresh = TRUE])

\* script.js:3266-3270: the participant's video has played to its end
ParticipantVideoEnds ==
    /\ modal.show
    /\ modal.content.kind = "guided"
    /\ Becomes(setTimeout(St, "afterVideo", 0))

\* script.js:3267-3269
AfterVideoFires ==
    \E i \in BagToSet(timeouts) :
        /\ i.kind = "afterVideo"
        /\ Becomes(continueToNextStory(Fired(St, i)))

-----------------------------------------------------------------------------
(* The progressive discovery story mode.                                   *)

\* script.js:1156, 1097: the markers of the map that open a popup
Locations == {"Street Interview 3", "Majuwa Khajaghar", "Thaple Khajaghar", "Street Interview 2"}

\* script.js:4286-4295
CharacterAt(location) ==
    CASE location = "Street Interview 3" -> "maili"
      [] location = "Majuwa Khajaghar" -> "sunita"
      [] location = "Thaple Khajaghar" -> "aman"
      [] OTHER -> NoCharacter

\* Array.prototype.includes on completedCharacters
Includes(seq, x) == \E i \in DOMAIN seq : seq[i] = x

\* script.js:3963-3977
unlockFirstCharacter(S) ==
    [S EXCEPT !.boxClass["maili"] = (@ \ {"locked"}) \cup {"unlocked"}]

\* script.js:3904-3954: the overlay is shown, play() is called and the
\* handlers are set
playAgeIntroVideoForStoryMode(S) ==
    [S EXCEPT !.introVideo = [overlay |-> TRUE, playing |-> TRUE, armed |-> TRUE,
                              starting |-> TRUE]]

\* script.js:3979-4025
setupStoryModeEventHandlers(S) == [S EXCEPT !.handlerSets = @ + 1]

\* script.js:3876-3902
initializeProgressiveStoryMode(S) ==
    setupStoryModeEventHandlers(playAgeIntroVideoForStoryMode(
        [S EXCEPT !.storyModeState.isActive = TRUE,
                  !.storyModeState.currentCharacter = NoCharacter,
                  !.storyModeState.completedCharacters = <<>>,
                  !.navbarHidden = TRUE]))

\* script.js:4050-4068
startViewingTimer(S, character) ==
    [setInterval(S, "viewing", character, requiredViewTimes[character], 0)
        EXCEPT !.storyModeState.viewingTimer = S.nextHandle,
               !.countedClosed[character] = FALSE]

\* script.js:4307-4321
startCharacterViewingFromMap(S, character) ==
    startViewingTimer(
        [S EXCEPT !.storyModeState.currentCharacter = character,
                  !.boxClass[character] = (@ \ {"unlocked"}) \cup {"viewing"}],
        character)

\* script.js:4283-4305
checkAndStartStoryModeViewing(S, location) ==
    LET character == CharacterAt(location)
    IN IF /\ S.storyModeState.isActive
          /\ character # NoCharacter
          /\ ~Includes(S.storyModeState.completedCharacters, character)
          /\ "unlocked" \in S.boxClass[character]
       THEN startCharacterViewingFromMap(S, character)
       ELSE S

\* script.js:4027-4043: openCharacterPopup is defined nowhere, the call throws
\* a ReferenceError and the viewing timer of script.js:4046 is never started
startCharacterViewing(S, character) ==
    [S EXCEPT !.storyModeState.currentCharacter = character,
              !.boxClass[character] = (@ \ {"unlocked"}) \cup {"viewing"}]

\* script.js:4097-4130
unlockNextCharacter(S, justCompleted) ==
    CASE justCompleted = "maili" ->
            [S EXCEPT !.boxClass["sunita"] = (@ \ {"locked"}) \cup {"unlocked"},
                      !.storyModeState.currentUnlocked = "sunita"]
      [] justCompleted = "sunita" ->
            [S EXCEPT !.boxClass["aman"] = (@ \ {"locked"}) \cup {"unlocked"},
                      !.storyModeState.currentUnlocked = "aman"]
      [] OTHER -> S

\* script.js:4070-4095
completeCharacterViewing(S, character) ==
    LET T == IF S.storyModeState.viewingTimer # 0
             THEN [clearInterval(S, S.storyModeState.viewingTimer)
                      EXCEPT !.storyModeState.viewingTimer = 0]
             ELSE S
    IN unlockNextCharacter(
         [T EXCEPT !.boxClass[character] = (@ \ {"viewing"}) \cup {"completed"},
                   !.storyModeState.completedCharacters = Append(@, character),
                   !.storyModeState.currentCharacter = NoCharacter],
         character)

\* script.js:4218-4273
exitStoryMode(S) ==
    LET T == [S EXCEPT !.storyModeState.isActive = FALSE,
                       !.storyModeState.currentCharacter = NoCharacter,
                       !.storyModeState.completedCharacters = <<>>]
        U2 == IF T.storyModeState.viewingTimer # 0
              THEN [clearInterval(T, T.storyModeState.viewingTimer)
                       EXCEPT !.storyModeState.viewingTimer = 0]
              ELSE T
    IN [U2 EXCEPT !.modal.show = FALSE,
                  !.navbarHidden = FALSE,
                  !.boxClass = [c \in CharacterSet |-> {"locked"}]]

\* script.js:1467-1620, 1623-1761: the content of a marker's popup
PopupOf(location) == [kind |-> "popup", of |-> location, index |-> 0]

\* the popup of the character's marker is open
PanelOpenOn(S, character) ==
    /\ S.modal.show
    /\ S.modal.content.kind = "popup"
    /\ CharacterAt(S.modal.content.of) = character

\* script.js:2176-2179, 2264-2278 and 2337-2339: the Stories button of the navbar
OpenStoriesPanel ==
    /\ ~navbarHidden
    /\ ~introVideo.overlay
    /\ Becomes([St EXCEPT !.navbarHidden = TRUE,
                          !.modal = [show |-> TRUE,
                                     content |-> [kind |-> "custom", of |-> "stories",
                                                  index |-> 0]]])

\* script.js:2396 and 2677-2694: the age-journey card of the Stories panel
startAgeBasedJourney ==
    /\ ~introVideo.overlay
    /\ modal.show
    /\ modal.content.kind = "custom"
    /\ Becomes(setTimeout(closeModal(St), "initStory", 0))

\* script.js:2691-2693
InitStoryFires ==
    \E i \in BagToSet(timeouts) :
        /\ i.kind = "initStory"
        /\ Becomes(initializeProgressiveStoryMode(Fired(St, i)))

\* script.js:3928-3930: play() resolved, possibly muted
IntroPlaybackStarts ==
    /\ introVideo.starting
    /\ Becomes([St EXCEPT !.introVideo.starting = FALSE])

\* script.js:3931-3938: play() was rejected twice; the overlay stays displayed
IntroPlaybackFails ==
    /\ introVideo.starting
    /\ Becomes(unlockFirstCharacter([St EXCEPT !.introVideo.starting = FALSE,
                                               !.introVideo.playing = FALSE]))

\* script.js:3942-3946 and 3956-3961: the video has played to its end
IntroVideoEnded ==
    /\ introVideo.armed
    /\ introVideo.playing
    /\ ~introVideo.starting
    /\ Becomes(unlockFirstCharacter([St EXCEPT !.introVideo.overlay = FALSE,
                                               !.introVideo.playing = FALSE]))

\* script.js:3949-3953: the skip button hides the overlay; the video plays on
SkipIntro ==
    /\ introVideo.armed
    /\ introVideo.overlay
    /\ Becomes(unlockFirstCharacter([St EXCEPT !.introVideo.overlay = FALSE]))

\* script.js:3981-4009: a click on a character box; every registered set of
\* listeners runs.  While the cinematic video overlay is displayed it covers
\* the page, and the boxes, the markers, the panel and the navbar cannot be
\* clicked.
ClickCharacterBox ==
    \E c \in CharacterSet :
        /\ handlerSets > 0
        /\ ~introVideo.overlay
        /\ LET done(x) == Includes(storyModeState.completedCharacters, x)
               T == CASE ~storyModeState.isActive \/ done(c) -> St
                      [] c = "maili" -> startCharacterViewing(St, "maili")
                      [] c = "sunita" ->
                           IF done("maili")
                           THEN [St EXCEPT !.storyModeState.currentUnlocked = "sunita"]
                           ELSE St
                      [] OTHER ->
                           IF done("sunita")
                           THEN [St EXCEPT !.storyModeState.currentUnlocked = "aman"]
                           ELSE St
           IN Becomes(T)

\* script.js:1156, 1097, 1467-1620 and 1623-1761: a click on a marker
ClickMarker ==
    \E location \in Locations :
        /\ ~introVideo.overlay
        /\ Becomes(checkAndStartStoryModeViewing(
                      [St EXCEPT !.navbarHidden = TRUE,
                                 !.modal = [show |-> TRUE,
                                            content |-> PopupOf(location)]],
                      location))

\* script.js:2529-2548 and 2113-2123: the close button of the panel
ClosePanel ==
    /\ ~introVideo.overlay
    /\ modal.show
    /\ Becomes(closeModal([St EXCEPT !.navbarHidden = FALSE]))

\* script.js:4060-4067: one second of a viewing interval
ViewingTick ==
    \E t \in intervals :
        /\ t.kind = "viewing"
        /\ LET T == [St EXCEPT
                        !.intervals = (@ \ {t}) \cup {[t EXCEPT !.left = @ - 1]},
                        !.countedClosed[t.ch] = @ \/ ~PanelOpenOn(St, t.ch)]
           IN IF t.left - 1 <= 0
              THEN Becomes(completeCharacterViewing(T, t.ch))
              ELSE Becomes(T)

\* script.js:4012 and 4021-4024: the exit button of the character boxes, or
\* the button of the completion overlay
ExitStoryMode ==
    /\ ~introVideo.overlay
    /\ handlerSets > 0
    /\ storyModeState.isActive
    /\ Becomes(exitStoryMode(St))

\* the auto-progression of the guided modes
ProgressionNext ==
    \/ SwitchMode
    \/ startSelfEfficacyJourney
    \/ StartEfficacyFires
    \/ PrevStory
    \/ NextStory
    \/ TogglePause
    \/ ExitProgression
    \/ ContinueToNextStory
    \/ ContinueFires
    \/ CountdownTick
    \/ BridgeTick
    \/ FlyToArrives
    \/ GuidedPanelOpens
    \/ ParticipantVideoEnds
    \/ AfterVideoFires
    \/ ClosePanel

\* the story mode
StoryNext ==
    \/ OpenStoriesPanel
    \/ startAgeBasedJourney
    \/ InitStoryFires
    \/ IntroPlaybackStarts
    \/ IntroPlaybackFails
    \/ IntroVideoEnded
    \/ SkipIntro
    \/ ClickCharacterBox
    \/ ClickMarker
    \/ ClosePanel
    \/ ViewingTick
    \/ ExitStoryMode

ProgressionSpec == Init /\ [][ProgressionNext]_vars

StorySpec == Init /\ [][StoryNext]_vars

-----------------------------------------------------------------------------
(* The claims about the journeys.                                          *)

\* C12: at most one journey timer (progression countdown interval, bridge
\* interval or story-mode viewing interval) is live at any time: every
\* previously scheduled journey timer has been cancelled before a new one is
\* created.
C12_AtMostOneJourneyTimer ==
    Cardinality(intervals) <= 1

\* no journey is running: the mode is manual, no auto-progression and no
\* story mode is active
Idle ==
    /\ currentMode = "manual"
    /\ ~progressionActive
    /\ ~storyModeState.isActive

\* C13: after exit (exitProgression or exitStoryMode), from any state, no
\* journey timer or pending journey callback remains live: as long as no
\* journey has been started again, the current stop index, the completed
\* list and the lock state of the character boxes do not change.
C13_NothingChangesAfterExit ==
    [][(Idle /\ Idle') =>
          /\ currentStoryIndex' = currentStoryIndex
          /\ storyModeState'.completedCharacters = storyModeState.completedCharacters
          /\ boxClass' = boxClass]_vars

\* script.js:2565-2634 and 3869-3873: the required viewing time of the stop
\* at an index of the age-based journey, 0 for a stop without one
RequiredViewSeconds(index) ==
    CASE index = 0 -> requiredViewTimes["maili"]
      [] index = 1 -> requiredViewTimes["sunita"]
      [] index = 3 -> requiredViewTimes["aman"]
      [] OTHER -> 0

\* the journey state an advance acts on
JourneyState == <<currentStoryIndex, intervals, timeouts, bridgeOverlay, modal,
                  currentMode, progressionActive>>

\* C14: advance (nextStory, the Continue button) invoked on a stop with a
\* required viewing time S before S seconds of unpaused viewing have elapsed
\* leaves the journey state unchanged.  The case checked is the advance made
\* in the step right after the stop's panel has opened, when no second of
\* viewing has elapsed.
C14_AdvanceGatedByViewTime ==
    [][( /\ panelFresh
         /\ currentMode = "age-journey"
         /\ modal.show
         /\ modal.content.index = currentStoryIndex
         /\ RequiredViewSeconds(currentStoryIndex) > 0
         /\ NextStory \/ ContinueToNextStory )
       => UNCHANGED JourneyState]_vars

\* C15: pausing the progression countdown at remaining = R, waiting, then
\* resuming (togglePause twice) leaves remaining = R at the moment of resume:
\* the value does not decrease while paused and is not restarted on resume.
C15_PauseResumePreservesRemaining ==
    [][ /\ (isPaused /\ isPaused') => progressionCountdown' = progressionCountdown
        /\ ( /\ isPaused
             /\ \E t \in intervals : t.kind = "countdown" /\ t.id = progressionTimer
             /\ TogglePause )
           => progressionCountdown' = progressionCountdown ]_vars

\* C16: a stop with a required viewing time is marked complete only after
\* that many seconds have elapsed while its content panel is open: a second
\* that passes while the panel is closed, or shows another marker's popup,
\* does not count toward completion.
C16_ViewingCountsOnlyWhilePanelOpen ==
    \A c \in CharacterSet :
        Includes(storyModeState.completedCharacters, c) => ~countedClosed[c]

\* s is a prefix of t
IsPrefix(s, t) ==
    /\ Len(s) <= Len(t)
    /\ \A i \in 1..Len(s) : s[i] = t[i]

\* the character whose completion unlocks c (script.js:4097-4130)
Predecessor(c) ==
    CASE c = "sunita" -> "maili"
      [] c = "aman" -> "sunita"
      [] OTHER -> NoCharacter

\* C17: in story mode the stops are visited strictly in order:
\* completedCharacters is a duplicate-free prefix of [maili, sunita, aman],
\* and the viewing of sunita (aman) is never under way unless maili (sunita)
\* is completed in the current journey.
C17_StopsVisitedInOrder ==
    /\ IsPrefix(storyModeState.completedCharacters, Characters)
    /\ \A t \in intervals :
          (t.kind = "viewing" /\ Predecessor(t.ch) # NoCharacter)
             => Includes(storyModeState.completedCharacters, Predecessor(t.ch))

\* C18: retreat (prevStory) from stop i > 0 cancels the active countdown and
\* enters stop i-1 directly, without showing the bridge-transition overlay
\* (including when i-1 > 0).
C18_RetreatWithoutBridge ==
    [][(PrevStory /\ ~bridgeOverlay)
          => /\ ~bridgeOverlay'
             /\ currentStoryIndex' = currentStoryIndex - 1
             /\ ~\E t \in intervals' : t.kind = "countdown" /\ t.id = progressionTimer
      ]_vars

\* C19: a journey can be started only from Idle and one journey instance is
\* live at a time: a start request made while a journey is already active
\* registers no second set of journey click handlers and leaves no timer of
\* the running journey alive outside the handle the journey keeps.
C19_StartOnlyFromIdle ==
    [][(storyModeState.isActive /\ InitStoryFires)
          => /\ handlerSets' = handlerSets
             /\ \A t \in intervals' : t.id = storyModeState'.viewingTimer]_vars

\* the first stop is not enterable yet: maili's box is locked
FirstStopLocked == "locked" \in boxClass["maili"]

\* C20: the intro video is mandatory: after a start the first stop becomes
\* enterable exactly when the intro video ends or is skipped, and only once
\* per start; no character viewing begins before that event, and a skip
\* followed by the later end of the same video does not unlock the first
\* stop a second time.
C20_IntroUnlocksFirstStopOnce ==
    [][ /\ (FirstStopLocked /\ ~FirstStopLocked') => (IntroVideoEnded \/ SkipIntro)
        /\ (IntroVideoEnded \/ SkipIntro) => FirstStopLocked
        /\ ( \/ storyModeState'.currentCharacter \notin {NoCharacter, storyModeState.currentCharacter}
             \/ \E t \in intervals' : t.kind = "viewing" /\ t \notin intervals /\ t.left = requiredViewTimes[t.ch] )
           => ~FirstStopLocked ]_vars

\* C21: immediately after exit from any journey state the controller is Idle
\* (mode 'manual', story mode inactive, completed list empty, not paused, no
\* current character) and the navbar is shown.
C21_ExitRestoresIdle ==
    [][(ExitProgression \/ ExitStoryMode)
          => /\ Idle'
             /\ ~isPaused'
             /\ storyModeState'.completedCharacters = <<>>
             /\ storyModeState'.currentCharacter = NoCharacter
             /\ ~navbarHidden']_vars

-----------------------------------------------------------------------------
(* The content panel.  A popup opener is the sequence of its writes to the *)
(* elements of #popup-modal, in the order of its statements.               *)

\* element.textContent = v, element.src = v or element.style.display = v on
\* an element the opener dereferences without a test
W(f, v) == [f |-> f, v |-> v, checked |-> FALSE]

\* the same under `if (element)`
Wc(f, v) == [f |-> f, v |-> v, checked |-> TRUE]

\* the popups of the markers
StreetInterviews == {"Street Interview 3", "Street Interview 2", "Street Interview "}
Khajaghars == {"Majuwa Khajaghar", "Thaple Khajaghar"}
Houses == {"Extended Family Home", "Farming Crew Household", "Tech-Resistant Household"}
POIs == {"Kirna Shop", "Majuwa Adharbhut Vidyalaya", "Ward Office"}
            \cup StreetInterviews \cup Khajaghars \cup Houses

\* the participants of the guided panel
Participants == {"Maili Tamang", "Sunita Tamang"}

\* popup-title, location-name, interview-count and access-badge
Header(p) == <<W("title", p), W("label", p), W("badge", p)>>

\* resident-content, foundation-content and resident-stats
Sections == <<W("residentContent", "block"), W("foundationContent", "none"),
              W("statsDisplay", "block")>>

\* the showcase video section with its heading and iframe
Showcase(p) == <<W("showcaseDisplay", "block"), W("showcaseHeading", p),
                 W("showcaseContainer", p)>>

\* the second video section with its heading and source
SecondVideo(p) == <<W("video2Display", "block"), W("video2Heading", p), W("video2Src", p)>>

\* the themes and the icons of the three quote items
QuoteThemes(p) == <<W("themes", p), W("icons", p)>>

\* modal.style.display = 'block'; modal.classList.add('show')
ShowModal == <<W("modal", "block")>>

\* script.js:1399-1464
openShopPopup ==
    LET p == "Kirna Shop" IN
    Header(p) \o Sections \o Showcase(p) \o <<W("profile", p), W("quotes", p),
        W("photoDisplay", "none")>> \o SecondVideo(p)
      \o <<W("video1Display", "none"), W("video3Display", "none"),
           W("statsDisplay", "none")>> \o ShowModal

\* script.js:1467-1620
openStreetInterviewPopup(location) ==
    LET p == location IN
    Header(p) \o Sections \o <<W("profile", p), W("photos", p)>>
      \o (CASE location = "Street Interview 3" ->
                 <<W("quotes", p)>> \o Showcase(p) \o <<W("video1Display", "none")>>
            [] location = "Street Interview 2" ->
                 <<W("quotes", p)>> \o QuoteThemes(p) \o Showcase(p)
                    \o <<W("video1Display", "none")>>
            [] OTHER ->
                 <<W("showcaseDisplay", "none"), W("quotes", p),
                   W("video1Heading", p), W("video1Src", p)>>)
      \o <<W("video2Display", "none"), W("video3Display", "none"), W("stats", p)>>
      \o ShowModal

\* script.js:1623-1761
openKhajagharPopup(location) ==
    LET p == location IN
    Header(p) \o Sections \o <<W("profile", p), W("photos", p), W("quotes", p)>>
      \o (IF location = "Thaple Khajaghar"
          THEN <<W("profile", p), W("quotes", p)>> \o QuoteThemes(p) \o Showcase(p)
                 \o SecondVideo(p)
                 \o <<W("video1Display", "none"), W("video3Display", "none")>>
          ELSE <<W("profile", p)>> \o Showcase(p)
                 \o <<W("profile", p), W("quotes", p), W("video1Display", "none"),
                      W("video2Display", "none"), W("video3Display", "none")>>)
      \o <<W("stats", p)>> \o ShowModal

\* script.js:1764-1836
openSchoolPopup ==
    LET p == "Majuwa Adharbhut Vidyalaya" IN
    Header(p) \o Sections \o Showcase(p) \o <<W("profile", p), W("quotes", p),
        W("photoDisplay", "none")>> \o SecondVideo(p)
      \o <<W("video1Display", "none"), W("video3Display", "none"),
           W("statsDisplay", "block"), W("stats", p)>> \o ShowModal

\* script.js:1839-1915
openWardOfficePopup ==
    LET p == "Ward Office" IN
    Header(p) \o Sections \o Showcase(p) \o <<W("profile", p), W("quotes", p)>>
      \o QuoteThemes(p) \o <<W("photoDisplay", "none")>> \o SecondVideo(p)
      \o <<W("video1Display", "none"), W("video3Display", "none"),
           W("statsDisplay", "none")>> \o ShowModal

\* script.js:1928-2025, for a house that is not the foundation
openPopup(house) ==
    LET p == house
        themed == house \in {"Extended Family Home", "Farming Crew Household"} IN
    Header(p) \o Sections \o <<W("profile", p), W("photos", p), W("quotes", p)>>
      \o (IF themed THEN QuoteThemes(p) ELSE <<>>)
      \o (IF themed
          THEN <<W("video1Display", "none"), W("video2Display", "none"),
                 W("video3Display", "none"), W("showcaseDisplay", "none")>>
          ELSE <<W("video1Heading", p), W("video1Src", p),
                 W("video2Display", "none"), W("video3Display", "none")>>)
      \o <<W("stats", p)>> \o ShowModal

\* script.js:3079-3118
clearModalContent ==
    <<W("title", ""), W("label", ""), W("profile", ""), W("photos", ""), W("quotes", ""),
      W("video1Heading", ""), W("video1Src", ""), W("profile", ""),
      Wc("customContent", "none"), W("youtubeDisplay", "block")>>

\* script.js:3121-3134: the part of openGuidedStoryPanel that runs at once
closeGuidedPanel == <<W("modal", "none")>> \o clearModalContent

\* script.js:3137-3294: the part of openGuidedStoryPanel that runs after 100 ms
populateGuidedPanel(content) ==
    LET p == content IN
    ShowModal \o <<W("title", p), W("label", p), W("accessIndicator", "flex"),
                   W("foundationContent", "none"), Wc("customContent", "none"),
                   W("residentContent", "block"), W("profile", p),
                   W("photoSection", "block"), Wc("photoGrid", p),
                   W("video1Heading", p), W("youtubeDisplay", "none"),
                   Wc("audioSection", "none"), Wc("statsDisplay", "none"),
                   Wc("video2Display", "none"), Wc("video3Display", "none"),
                   Wc("video1Display", "block")>>

\* the writes of the opener of a marker's popup
WritesOf(p) ==
    CASE p = "Kirna Shop" -> openShopPopup
      [] p = "Majuwa Adharbhut Vidyalaya" -> openSchoolPopup
      [] p = "Ward Office" -> openWardOfficePopup
      [] p \in StreetInterviews -> openStreetInterviewPopup(p)
      [] p \in Khajaghars -> openKhajagharPopup(p)
      [] OTHER -> openPopup(p)

\* The statements ws[i..] run on the panel P in a document that lacks the
\* elements M: getElementById returns null for a missing element, a write
\* through null throws a TypeError and the rest of the function does not
\* run; a write under `if (element)` is skipped.
RECURSIVE Run(_, _, _, _)
Run(P, ws, i, M) ==
    IF i > Len(ws) THEN P
    ELSE IF ws[i].f \in M
         THEN IF ws[i].checked THEN Run(P, ws, i + 1, M)
              ELSE [P EXCEPT !.threw = TRUE]
         ELSE Run([P EXCEPT !.fields[ws[i].f] = ws[i].v], ws, i + 1, M)

\* a handler opens the popup p
Opens(p) ==
    /\ panel' = Run([panel EXCEPT !.poi = p, !.threw = FALSE], WritesOf(p), 1, missing)
    /\ UNCHANGED <<missing, intro, bvars, jvars>>

\* script.js:1186
ClickShopMarker == Opens("Kirna Shop")

\* script.js:1054
ClickSchoolMarker == Opens("Majuwa Adharbhut Vidyalaya")

\* script.js:1035
ClickWardOfficeMarker == Opens("Ward Office")

\* script.js:1156
ClickStreetInterviewMarker == \E location \in StreetInterviews : Opens(location)

\* script.js:1097
ClickKhajagharMarker == \E location \in Khajaghars : Opens(location)

\* script.js:851
ClickHouseMarker == \E house \in Houses : Opens(house)

\* script.js:3047-3076 and 3121-3135: the guided panel is asked for; when
\* clearModalContent throws, the timeout is not set
OpenGuidedStoryPanel ==
    \E content \in Participants :
        /\ LET P == Run([panel EXCEPT !.poi = content, !.threw = FALSE],
                        closeGuidedPanel, 1, missing)
           IN panel' = [P EXCEPT !.pending = IF P.threw THEN panel.pending ELSE content]
        /\ UNCHANGED <<missing, intro, bvars, jvars>>

\* script.js:3137-3294: the timeout of openGuidedStoryPanel fires
PopulateGuidedPanel ==
    /\ panel.pending # "none"
    /\ panel' = Run([panel EXCEPT !.poi = panel.pending, !.threw = FALSE,
                                  !.pending = "none"],
                    populateGuidedPanel(panel.pending), 1, missing)
    /\ UNCHANGED <<missing, intro, bvars, jvars>>

\* script.js:2530-2548 and 2113-2123
closeBtnOnclick ==
    <<Wc("customContent", "none"), W("accessIndicator", "flex"), W("modal", "none"),
      W("video1Src", "")>>

\* the close button of the panel is clicked
ClosePopup ==
    /\ panel.fields["modal"] = "block"
    /\ panel' = Run([panel EXCEPT !.threw = FALSE], closeBtnOnclick, 1, missing)
    /\ UNCHANGED <<missing, intro, bvars, jvars>>

\* the elements one of which the document may lack
MissingCandidates == {"label", "themes", "accessIndicator", "statsDisplay", "photoGrid"}

\* the page as loaded, with a document that lacks at most one element
PanelStart ==
    /\ pc = "init" /\ cur = 0 /\ sub = 0 /\ data = NoData
    /\ results = [k \in CountrySources |-> Untried]
    /\ districtWorld = NoWorld /\ muniWorld = NoWorld /\ fetchLog = <<>>
    /\ nepalPolygon = Null /\ bagmatiPolygon = Null /\ nagarjunPolygon = Null
    /\ mapLayers = {} /\ escaped = FALSE
    /\ JourneyInit
    /\ PanelInit
    /\ IntroInit
    /\ missing \in {{}} \cup {{f} : f \in MissingCandidates}

PanelNext ==
    \/ ClickShopMarker
    \/ ClickSchoolMarker
    \/ ClickWardOfficeMarker
    \/ ClickStreetInterviewMarker
    \/ ClickKhajagharMarker
    \/ ClickHouseMarker
    \/ OpenGuidedStoryPanel
    \/ PopulateGuidedPanel
    \/ ClosePopup

PanelSpec == PanelStart /\ [][PanelNext]_vars

\* what the opener of p leaves in a panel that no popup has written to
Pristine(p) ==
    Run([fields |-> [f \in PanelFields |-> Default], poi |-> p, threw |-> FALSE,
         pending |-> "none"], WritesOf(p), 1, {})

\* the fields a marker's popup binds: the content and the visibility of its sections
BindableFields ==
    ContentFields \cup {"showcaseDisplay", "video1Display", "video2Display",
                        "video3Display", "statsDisplay", "photoDisplay"}

\* C22: while the popup of a marker is shown in a complete document, every
\* bindable field of the panel holds what that popup's own opener puts there,
\* or the empty default; nothing of a popup opened before it remains.
C22_NoResidualFields ==
    (missing = {} /\ panel.poi \in POIs /\ panel.fields["modal"] = "block")
        => \A f \in BindableFields :
               panel.fields[f] \in {Pristine(panel.poi).fields[f], Default, ""}

\* C25: no opener of the panel stops at a missing element.
C25_PopulationNeverAborts == ~panel.threw

-----------------------------------------------------------------------------
(* The cinematic sequence of the load listener: splash screen, statistics  *)
(* overlay, intro video, transition to the map.                            *)

\* how many intro-to-map transitions are followed
MaxTransitions == 3

\* what cinematicVideo.play() can answer: played with audio, played muted
\* after the first promise was rejected, or rejected twice
PlayOutcomes == {"audio", "muted", "blocked"}

\* script.js:1227-1250 and 3024-3040: the video element and the control
\* button after a play() attempt with the given outcome
Played(I, outcome) ==
    CASE outcome = "audio" -> [I EXCEPT !.video = "playing", !.muted = FALSE, !.button = "none"]
      [] outcome = "muted" -> [I EXCEPT !.video = "playing", !.muted = TRUE, !.button = "unmute"]
      [] OTHER -> [I EXCEPT !.muted = TRUE,
                            !.button = IF I.button = "none" THEN "play" ELSE "error"]

\* script.js:1260-1262 and 1264: skipToMap up to its setTimeout
skipToMap(I) ==
    [I EXCEPT !.video = IF I.video = "playing" THEN "paused" ELSE I.video,
              !.pendingSkips = I.pendingSkips + 1]

\* an action of the intro sequence leaves the rest of the page alone
IntroBecomes(I) ==
    /\ intro' = I
    /\ UNCHANGED <<panel, missing, bvars, jvars>>

\* script.js:1374-1377: the splash screen's 4 seconds are over
SplashFades ==
    /\ intro.phase = "splash"
    /\ IntroBecomes([intro EXCEPT !.phase = "fading"])

\* script.js:1380-1389: the statistics overlay is shown, startVideoSequence
\* registers the input listeners
StatsOverlayShown ==
    /\ intro.phase = "fading"
    /\ IntroBecomes([intro EXCEPT !.phase = "stats"])

\* script.js:1195-1202: the first click or key press
UserInput ==
    /\ intro.phase = "stats"
    /\ ~intro.userInteracted
    /\ IntroBecomes([intro EXCEPT !.userInteracted = TRUE, !.phase = "statsFading"])

\* script.js:1225-1257: the video overlay is shown, play() is attempted and
\* the skip and ended handlers are set
VideoOverlayShown ==
    /\ intro.phase = "statsFading"
    /\ \E outcome \in PlayOutcomes :
          IntroBecomes(Played([intro EXCEPT !.phase = "video", !.overlay = TRUE,
                                            !.armed = TRUE], outcome))

\* script.js:2973-2977
ClickUnmute ==
    /\ intro.overlay
    /\ intro.button = "unmute"
    /\ IntroBecomes([intro EXCEPT !.muted = FALSE, !.button = "none"])

\* script.js:3020-3040
ClickPlay ==
    /\ intro.overlay
    /\ intro.button \in {"play", "error"}
    /\ \E outcome \in PlayOutcomes :
          IntroBecomes(Played([intro EXCEPT !.button = IF outcome = "blocked"
                                                         THEN intro.button ELSE "none"],
                              outcome))

\* script.js:1253: the skip button is clicked while the overlay is displayed
ClickSkip ==
    /\ intro.overlay
    /\ intro.armed
    /\ intro.pendingSkips + intro.created < MaxTransitions
    /\ IntroBecomes(skipToMap(intro))

\* script.js:1256: the video plays to its end
VideoEnded ==
    /\ intro.armed
    /\ intro.video = "playing"
    /\ intro.pendingSkips + intro.created < MaxTransitions
    /\ IntroBecomes(skipToMap([intro EXCEPT !.video = "ended"]))

\* script.js:1264-1283: a timeout of skipToMap fires; createAreaBoundaries
\* (899-961) adds the circles, labels and markers to the map
SkipTimeoutFires ==
    /\ intro.pendingSkips > 0
    /\ IntroBecomes([intro EXCEPT !.pendingSkips = @ - 1, !.overlay = FALSE,
                                  !.phase = "map", !.created = @ + 1,
                                  !.navbar = TRUE, !.pendingHighlights = @ + 1])

\* script.js:1279-1281 and 1287-1354: startAreaHighlighting
HighlightTimeoutFires ==
    /\ intro.pendingHighlights > 0
    /\ IntroBecomes([intro EXCEPT !.pendingHighlights = @ - 1])

IntroNext ==
    \/ SplashFades
    \/ StatsOverlayShown
    \/ UserInput
    \/ VideoOverlayShown
    \/ ClickUnmute
    \/ ClickPlay
    \/ ClickSkip
    \/ VideoEnded
    \/ SkipTimeoutFires
    \/ HighlightTimeoutFires

IntroSpec == Init /\ [][IntroNext]_vars

\* script.js:1070-1116: the entries of markerReferences.khajaghar
KhajagharReferences == 2 * intro.created

\* C30: createAreaBoundaries runs at most once, and only in the transition
\* to the map that follows the end or the skipping of the intro video, so
\* markerReferences.khajaghar never holds more than its two markers.
C30_BoundariesCreatedOnce ==
    /\ intro.created <= 1
    /\ KhajagharReferences <= 2
    /\ (intro.phase # "map" => intro.created = 0)

-----------------------------------------------------------------------------
(* The order of the steps of an advance.                                   *)

\* script.js:2937: the timeout of animateToLocation for the stop at index k
FlyTo(k) == [kind |-> "flyTo", index |-> k]

\* script.js:3137: the timeout of openGuidedStoryPanel for the stop at index k
OpenPanel(k) == [kind |-> "openPanel", index |-> k]

\* the step sets the timeout i
Issued(i) == CopiesIn(i, timeouts') > CopiesIn(i, timeouts)

\* the step runs the callback of the timeout i
Fires(i) == CopiesIn(i, timeouts') < CopiesIn(i, timeouts)

\* script.js:2893-2897: the step is the fourth tick of a bridge to the stop at index k
BridgeEnds(k) ==
    \E t \in intervals :
        /\ t.kind = "bridge" /\ t.index = k /\ t.left = 1
        /\ t \notin intervals'

\* script.js:3137-3295: the step populates the panel with the stop at index k
PanelPopulated(k) ==
    /\ panelFresh'
    /\ modal'.content.index = k

\* C23: the fly-to to a stop after the first is issued only by the fourth
\* tick of a bridge to that stop, with the bridge overlay still shown; a
\* stop's panel is populated only by the callback of the panel timeout that
\* the arrival of the stop's fly-to has set.
C23_BridgeThenFlyToThenPanel ==
    [][\A k \in 0..(JourneyLength - 1) :
          /\ (k > 0 /\ Issued(FlyTo(k))) => (BridgeEnds(k) /\ bridgeOverlay)
          /\ Issued(OpenPanel(k)) => Fires(FlyTo(k))
          /\ PanelPopulated(k) => Fires(OpenPanel(k))]_vars

\* script.js:3466: the template of the alert reads journeyModes[currentMode].name,
\* a TypeError when the mode has no entry in journeyModes
completeJourneyThrows(S) == S.currentMode \notin JourneyModes

\* script.js:3314 and 3387-3388: the step calls goToStory with the index
\* after the last stop's, from the Continue timeout or from the countdown
AdvancesPastLastStop ==
    /\ currentStoryIndex + 1 >= JourneyLength
    /\ \/ ContinueFires
       \/ (CountdownTick /\ ~isPaused /\ progressionCountdown - 1 <= 0)

\* C24: an advance past the last stop completes the journey: no error is
\* raised, the mode is manual, progression is inactive, the timer handle is
\* null and no countdown interval is left running.
C24_PastLastStopCompletes ==
    [][AdvancesPastLastStop
          => /\ ~completeJourneyThrows(St)
             /\ currentMode' = "manual"
             /\ ~progressionActive'
             /\ progressionTimer' = 0
             /\ \A t \in intervals' : t.kind # "countdown"]_vars

\* C26: the current stop index stays within the stops of the journey and a
\* step moves it by at most one stop, except for the start of a journey,
\* which puts it at the first stop.
C26_IndexMovesBetweenAdjacentStops ==
    [][/\ currentStoryIndex' \in 0..(JourneyLength - 1)
       /\ \/ currentStoryIndex' - currentStoryIndex \in {-1, 0, 1}
          \/ (currentStoryIndex' = 0 /\ (SwitchMode \/ StartEfficacyFires))]_vars

\* script.js:4033-4034 and 4313-4314: the step puts the box of the character
\* into the state 'viewing'
EntersViewing(c) ==
    /\ "viewing" \notin boxClass[c]
    /\ "viewing" \in boxClass'[c]

\* C27: a step that puts a character's box into the state 'viewing' (the
\* click on the unlocked Maili box, or a click on the character's marker)
\* leaves her panel open and her viewing countdown running from the full
\* required time; a box in the state 'viewing' without a countdown can never
\* be marked completed.
C27_ViewingStartsCountdown ==
    [][\A c \in CharacterSet :
          EntersViewing(c)
             => /\ \E t \in intervals' :
                      t.kind = "viewing" /\ t.ch = c /\ t.left = requiredViewTimes[c]
                /\ modal'.show]_vars

\* C28: when the callback that leaves a stop runs (set by the Continue
\* button or by the video-ended handler), no bridge away from the stop is
\* already running, so a stop is left by one bridge only; and after the
\* journey has been exited the callback moves nothing.
C28_StopLeftAtMostOnce ==
    [][ContinueFires
          => /\ \A t \in intervals : t.kind # "bridge"
             /\ ~progressionActive
                   => (currentStoryIndex' = currentStoryIndex /\ intervals' = intervals)]_vars

-----------------------------------------------------------------------------
(* The order of the boundary fetches.                                      *)

\* the chain (country, district, municipality) of the i-th fetch
ChainOf(i) == fetchLog[i][1]

\* the position in fetchLog of the last country fetch before the i-th fetch,
\* 0 when there is none
CountryFetchBefore(i) ==
    LET js == {j \in 1..(i - 1) : ChainOf(j) = "country"}
    IN IF js = {} THEN 0 ELSE CHOOSE j \in js : \A m \in js : m <= j

\* script.js:33 and 111: the country source answered with a 2xx status
CountryFetched(k) == results[k].net = "ok" /\ ResponseOk(results[k])

\* script.js:31, 36, 110, 119, 177 and 240: the fetch that is awaited
InFlight ==
    CASE pc = "fetchCountry" -> {<<"country", cur>>}
      [] pc = "fetchDistrict" -> {<<"district", sub>>}
      [] pc = "fetchMunicipality" -> {<<"municipality", sub>>}
      [] OTHER -> {}

\* C29: every district or municipality fetch follows the fetch of a country
\* source that answered successfully and whose country layer is on the map;
\* within the processing of one country source no district fetch follows a
\* municipality fetch; the only fetch in flight is the last one issued; and
\* when no country source has answered successfully, only country sources
\* have been fetched.
C29_ResolutionInsideCountryProcessing ==
    /\ \A i \in 1..Len(fetchLog) :
          ChainOf(i) # "country" =>
              /\ CountryFetchBefore(i) > 0
              /\ CountryFetched(fetchLog[CountryFetchBefore(i)][2])
              /\ CountryLayer(fetchLog[CountryFetchBefore(i)][2]) \in mapLayers
    /\ \A i, j \in 1..Len(fetchLog) :
          (i < j /\ ChainOf(i) = "municipality" /\ ChainOf(j) = "district")
              => CountryFetchBefore(j) > i
    /\ \A f \in InFlight : fetchLog # <<>> /\ fetchLog[Len(fetchLog)] = f
    /\ (\A k \in CountrySources : ~CountryFetched(k))
          => \A i \in 1..Len(fetchLog) : ChainOf(i) = "country"

\* C29 witness: the first country source failed, the processing of the second
\* threw in the province search, and the third was processed with both
\* district sources and then a municipality source fetched.
C29_Witness ==
    /\ results[1] = Http(503)
    /\ CountryFetched(2)
    /\ CountryFetched(3)
    /\ fetchLog = <<<<"country", 1>>, <<"country", 2>>, <<"country", 3>>,
                    <<"district", 1>>, <<"district", 2>>, <<"municipality", 1>>>>
    /\ CountryLayer(3) \in mapLayers
====
